---- MODULE Spec2Model ----
(***************************************************************************)
(* buggalo: extraction of phylogenetic trees from a tree file              *)
(* (src/main.cpp).  One process runs main(): it checks the command line,   *)
(* parses the input with the tree parser, and writes every tree to its own *)
(* "<name>.tre" file.  The model follows the control flow of main(),       *)
(* extract_trees(), parse_input() and spit_newick(); the same command may  *)
(* be run a second time on the file system the first run left behind.      *)
(*                                                                         *)
(* Text (std::string) is a sequence of one-character strings, so that      *)
(* concatenation, the decimal rendering of an index and the appended ";"   *)
(* are computed, not assumed.                                              *)
(***************************************************************************)
EXTENDS Integers, Sequences, FiniteSets, TLC

\* The longest vector of trees an input file holds.
MaxTrees == 2

VARIABLES
    cmd,        \* the command line: each option holds 0 or 1 value (vm.count)
    file,       \* what the input file holds: its trees, and how parsing it ends
    fs,         \* the working directory: file name -> contents
    run,        \* "first" or "second" execution of the same command
    pc,         \* where the process is
    prefix,     \* main's local `prefix`
    parser,     \* the trees held by the tree_parser (parser.get_trees())
    i,          \* extract_trees' loop index
    inputOpened,\* whether the ifstream on the input has been constructed
    stdout,     \* lines written to cout
    stderr,     \* lines written to cerr
    exitStatus, \* "running", "0", "1" or "SIGABRT" (std::terminate)
    calls,      \* this run's invocations of spit_newick, in order
    fsStart,    \* the working directory when this run started
    prevCalls   \* the first run's invocations of spit_newick

vars == <<cmd, file, fs, run, pc, prefix, parser, i, inputOpened, stdout,
          stderr, exitStatus, calls, fsStart, prevCalls>>

----------------------------------------------------------------------------
\* Text.

TRE == <<".", "t", "r", "e">>

Digits == <<"0", "1", "2", "3", "4", "5", "6", "7", "8", "9">>

\* boost::lexical_cast<string>(unsigned): the decimal digits of n.
RECURSIVE lexical_cast(_)
lexical_cast(n) ==
    IF n < 10 THEN <<Digits[n + 1]>>
    ELSE lexical_cast(n \div 10) \o <<Digits[(n % 10) + 1]>>

DefaultPrefix == <<"t", "r", "e", "e">>

\* MultiFormatReader::getFormatNames(): the identifiers the library advertises.
FormatNames == << <<"n", "e", "x", "u", "s">>, <<"f", "i", "n">> >>

\* Messages.
MsgMissingInput  == <<"required option, --input, missing">>
MsgMissingFormat == <<"required option, --format, missing">>
MsgInvalidFormat == <<"invalid input format: ">>
MsgValidFormats  == <<"valid formats:">>
MsgUsage         == <<"Allowed options">>
MsgNxs           == <<"NxsException::nxs_what">>
MsgException     == <<"exception::what">>
MsgUnknown       == <<"unknown exception occurred while parsing tree">>

----------------------------------------------------------------------------
\* Inputs.

NameChoices   == { <<>>, <<"A">>, <<"t", "_", "1">> }
NewickChoices == { <<>>, <<"x">>, <<"x", ";">> }
TreeChoices   == [name : NameChoices, newick : NewickChoices]

TreeVectors == UNION { [1..n -> TreeChoices] : n \in 0..MaxTrees }

\* An input file: the trees it holds, how parser.parse ends on it, and how
\* many trees the parser holds when it ends (all of them when it succeeds).
FileChoices ==
    { [trees |-> t, outcome |-> "ok", decoded |-> Len(t)] : t \in TreeVectors }
    \cup
    { [trees |-> t, outcome |-> o, decoded |-> d] :
        <<t, o, d>> \in { x \in TreeVectors
                                \X {"NxsException", "exception", "unknown"}
                                \X (0..MaxTrees) : x[3] <= Len(x[1]) } }

Opt(v) == <<v>>
NoOpt  == <<>>

CmdChoices ==
    { [help |-> FALSE, input |-> Opt(<<"i", "n">>), format |-> Opt(f), prefix |-> p] :
        <<f, p>> \in { <<FormatNames[1], NoOpt>>,
                       <<FormatNames[1], Opt(<<"t">>)>>,
                       <<FormatNames[2], NoOpt>>,
                       <<(<<"N", "e", "x", "u", "s">>), NoOpt>>,
                       <<(<<"n", "e", "x">>), Opt(<<"t">>)>>,
                       <<(<<>>), NoOpt>> } }
    \cup
    { [help |-> TRUE, input |-> Opt(<<"i", "n">>), format |-> Opt(FormatNames[1]),
       prefix |-> NoOpt],
      [help |-> FALSE, input |-> NoOpt, format |-> Opt(FormatNames[1]),
       prefix |-> NoOpt],
      [help |-> FALSE, input |-> Opt(<<"i", "n">>), format |-> NoOpt,
       prefix |-> NoOpt] }

NoFiles == [f \in {} |-> <<>>]

OldFiles == [f \in { <<"A">> \o TRE, <<"t", "_", "1">> \o TRE } |-> <<"o", "l", "d">>]

FsChoices == { NoFiles, OldFiles }

----------------------------------------------------------------------------
\* main.cpp, helpers.

\* A comparison that ignores letter case.
Lower(c) == CASE c = "N" -> "n" [] c = "E" -> "e" [] c = "X" -> "x"
              [] c = "U" -> "u" [] c = "S" -> "s" [] OTHER -> c

is_valid_format_nocase(format) ==
    \E k \in 1..Len(FormatNames) :
        FormatNames[k] = [j \in 1..Len(format) |-> Lower(format[j])]

\* is_valid_format: an exact comparison with each advertised name.
is_valid_format(format) ==
    \E k \in 1..Len(FormatNames) : FormatNames[k] = format

\* display_valid_formats: one line per advertised name, in order.
display_valid_formats ==
    [k \in 1..Len(FormatNames) |-> <<"\t">> \o FormatNames[k]]

\* Numbering the unnamed trees by their rank among the unnamed trees.
OutputNameByRank(trs, n, pfx) ==
    LET name == trs[n + 1].name
        rank == Cardinality({ j \in 1..n : Len(trs[j].name) = 0 })
    IN  (IF Len(name) = 0 THEN pfx \o <<"_">> \o lexical_cast(rank) ELSE name) \o TRE

\* extract_trees, lines 143-148: the name of the tree at 0-based position n.
OutputName(trs, n, pfx) ==
    LET name == trs[n + 1].name
    IN  (IF Len(name) = 0 THEN pfx \o <<"_">> \o lexical_cast(n) ELSE name) \o TRE

\* Opening in append mode (ios::app): earlier contents are kept.
spit_newick_append(contents, filename, opened, dir) ==
    IF opened
    THEN [f \in (DOMAIN dir) \cup {filename} |->
            IF f = filename
            THEN (IF f \in DOMAIN dir THEN dir[f] ELSE <<>>) \o contents \o <<";">>
            ELSE dir[f]]
    ELSE dir

\* Adding the terminator only when the string does not end in one.
spit_newick_terminate_once(contents, filename, opened, dir) ==
    IF opened
    THEN [f \in (DOMAIN dir) \cup {filename} |->
            IF f = filename
            THEN (IF Len(contents) > 0 /\ contents[Len(contents)] = ";"
                  THEN contents ELSE contents \o <<";">>)
            ELSE dir[f]]
    ELSE dir

\* Refusing to replace a file that exists (first write wins).
spit_newick_keep_existing(contents, filename, opened, dir) ==
    IF opened /\ filename \notin DOMAIN dir
    THEN [f \in (DOMAIN dir) \cup {filename} |->
            IF f = filename THEN contents \o <<";">> ELSE dir[f]]
    ELSE dir

\* spit_newick: out.open truncates or creates the file; when the open fails
\* the stream is in a failed state, nothing is written and nothing is thrown.
spit_newick(contents, filename, opened, dir) ==
    IF opened
    THEN [f \in (DOMAIN dir) \cup {filename} |->
            IF f = filename THEN contents \o <<";">> ELSE dir[f]]
    ELSE dir

\* tree_parser::parse followed by tree_parser::get_trees: the trees the parser
\* holds once parse has returned or thrown, in the order of the file.
parser_get_trees(f) == SubSeq(f.trees, 1, f.decoded)

\* exit(status), a return from main, or std::terminate.
Exit(status) ==
    /\ pc' = "exited"
    /\ exitStatus' = status

----------------------------------------------------------------------------
Init ==
    /\ cmd \in CmdChoices
    /\ file \in FileChoices
    /\ fs \in FsChoices
    /\ run = "first"
    /\ pc = "main"
    /\ prefix = <<>>
    /\ parser = <<>>
    /\ i = 0
    /\ inputOpened = FALSE
    /\ stdout = <<>>
    /\ stderr = <<>>
    /\ exitStatus = "running"
    /\ calls = <<>>
    /\ fsStart = fs
    /\ prevCalls = <<>>

\* main, lines 46-49.
MainHelp ==
    /\ pc = "main"
    /\ cmd.help
    /\ stdout' = Append(stdout, MsgUsage)
    /\ Exit("0")
    /\ UNCHANGED <<cmd, file, fs, run, prefix, parser, i, inputOpened, stderr,
                   calls, fsStart, prevCalls>>

\* main, lines 52-56.
MainMissingInput ==
    /\ pc = "main"
    /\ ~cmd.help
    /\ Len(cmd.input) = 0
    /\ stderr' = stderr \o <<MsgMissingInput, MsgUsage>>
    /\ Exit("1")
    /\ UNCHANGED <<cmd, file, fs, run, prefix, parser, i, inputOpened, stdout,
                   calls, fsStart, prevCalls>>

\* main, lines 60-64.
MainMissingFormat ==
    /\ pc = "main"
    /\ ~cmd.help
    /\ Len(cmd.input) # 0
    /\ Len(cmd.format) = 0
    /\ stderr' = stderr \o <<MsgMissingFormat, MsgUsage>>
    /\ Exit("1")
    /\ UNCHANGED <<cmd, file, fs, run, prefix, parser, i, inputOpened, stdout,
                   calls, fsStart, prevCalls>>

\* main, lines 65-70.
MainInvalidFormat ==
    /\ pc = "main"
    /\ ~cmd.help
    /\ Len(cmd.input) # 0
    /\ Len(cmd.format) # 0
    /\ ~is_valid_format(cmd.format[1])
    /\ stderr' = stderr \o <<MsgInvalidFormat, MsgValidFormats>> \o display_valid_formats
    /\ Exit("1")
    /\ UNCHANGED <<cmd, file, fs, run, prefix, parser, i, inputOpened, stdout,
                   calls, fsStart, prevCalls>>

\* main, lines 65-76: the format is valid; the prefix is chosen and
\* extract_trees is entered.
MainExtract ==
    /\ pc = "main"
    /\ ~cmd.help
    /\ Len(cmd.input) # 0
    /\ Len(cmd.format) # 0
    /\ is_valid_format(cmd.format[1])
    /\ prefix' = IF Len(cmd.prefix) # 0 THEN cmd.prefix[1] ELSE DefaultPrefix
    /\ pc' = "parse_input"
    /\ UNCHANGED <<cmd, file, fs, run, parser, i, inputOpened, stdout, stderr,
                   exitStatus, calls, fsStart, prevCalls>>

\* parse_input, lines 172-175: parsing ends normally.
ParseOk ==
    /\ pc = "parse_input"
    /\ file.outcome = "ok"
    /\ inputOpened' = TRUE
    /\ parser' = parser_get_trees(file)
    /\ pc' = "get_trees"
    /\ UNCHANGED <<cmd, file, fs, run, prefix, i, stdout, stderr, exitStatus,
                   calls, fsStart, prevCalls>>

\* parse_input, lines 176-179.
CatchNxsException ==
    /\ pc = "parse_input"
    /\ file.outcome = "NxsException"
    /\ inputOpened' = TRUE
    /\ parser' = parser_get_trees(file)
    /\ stderr' = Append(stderr, MsgNxs)
    /\ Exit("1")
    /\ UNCHANGED <<cmd, file, fs, run, prefix, i, stdout, calls, fsStart,
                   prevCalls>>

\* A handler that reports and does not exit.
CatchExceptionNoExit ==
    /\ pc = "parse_input"
    /\ file.outcome = "exception"
    /\ inputOpened' = TRUE
    /\ parser' = parser_get_trees(file)
    /\ stderr' = Append(stderr, MsgException)
    /\ pc' = "get_trees"
    /\ UNCHANGED <<cmd, file, fs, run, prefix, i, stdout, exitStatus, calls,
                   fsStart, prevCalls>>

\* parse_input, lines 180-183.
CatchException ==
    /\ pc = "parse_input"
    /\ file.outcome = "exception"
    /\ inputOpened' = TRUE
    /\ parser' = parser_get_trees(file)
    /\ stderr' = Append(stderr, MsgException)
    /\ Exit("1")
    /\ UNCHANGED <<cmd, file, fs, run, prefix, i, stdout, calls, fsStart,
                   prevCalls>>

\* parse_input, lines 184-186: the handler reports and falls through, so
\* parse_input returns to extract_trees.
CatchAll ==
    /\ pc = "parse_input"
    /\ file.outcome = "unknown"
    /\ inputOpened' = TRUE
    /\ parser' = parser_get_trees(file)
    /\ stderr' = Append(stderr, MsgUnknown)
    /\ pc' = "get_trees"
    /\ UNCHANGED <<cmd, file, fs, run, prefix, i, stdout, exitStatus, calls,
                   fsStart, prevCalls>>

\* Without the empty-result check the loop runs zero times and main returns 0.
ReturnOnNoTrees ==
    /\ pc = "get_trees"
    /\ Len(parser) = 0
    /\ Exit("0")
    /\ UNCHANGED <<cmd, file, fs, run, prefix, parser, i, inputOpened, stdout,
                   stderr, calls, fsStart, prevCalls>>

\* extract_trees, lines 138-141: no handler catches no_trees, so the throw
\* ends in std::terminate.
ThrowNoTrees ==
    /\ pc = "get_trees"
    /\ Len(parser) = 0
    /\ Exit("SIGABRT")
    /\ UNCHANGED <<cmd, file, fs, run, prefix, parser, i, inputOpened, stdout,
                   stderr, calls, fsStart, prevCalls>>

\* A loop that starts at 1.
EnterLoopAtOne ==
    /\ pc = "get_trees"
    /\ Len(parser) # 0
    /\ i' = 1
    /\ pc' = "loop"
    /\ UNCHANGED <<cmd, file, fs, run, prefix, parser, inputOpened, stdout,
                   stderr, exitStatus, calls, fsStart, prevCalls>>

\* extract_trees, lines 138-142: the loop is entered with i = 0.
EnterLoop ==
    /\ pc = "get_trees"
    /\ Len(parser) # 0
    /\ i' = 0
    /\ pc' = "loop"
    /\ UNCHANGED <<cmd, file, fs, run, prefix, parser, inputOpened, stdout,
                   stderr, exitStatus, calls, fsStart, prevCalls>>

\* extract_trees, lines 142-149: one iteration.  Whether the output file can
\* be opened is the environment's choice.
WriteTree ==
    /\ pc = "loop"
    /\ i < Len(parser)
    /\ \E opened \in BOOLEAN :
         LET filename == OutputName(parser, i, prefix)
             contents == parser[i + 1].newick
         IN  /\ fs' = spit_newick(contents, filename, opened, fs)
             /\ calls' = Append(calls, [index |-> i, filename |-> filename,
                                       contents |-> contents, opened |-> opened])
    /\ i' = i + 1
    /\ UNCHANGED <<cmd, file, run, pc, prefix, parser, inputOpened, stdout,
                   stderr, exitStatus, fsStart, prevCalls>>

\* extract_trees line 142 (the loop ends), main line 78.
MainReturn ==
    /\ pc = "loop"
    /\ ~(i < Len(parser))
    /\ Exit("0")
    /\ UNCHANGED <<cmd, file, fs, run, prefix, parser, i, inputOpened, stdout,
                   stderr, calls, fsStart, prevCalls>>

\* The same command line is run again on the same input file, in the
\* working directory the first run left.
RunAgain ==
    /\ pc = "exited"
    /\ run = "first"
    /\ run' = "second"
    /\ pc' = "main"
    /\ prefix' = <<>>
    /\ parser' = <<>>
    /\ i' = 0
    /\ inputOpened' = FALSE
    /\ stdout' = <<>>
    /\ stderr' = <<>>
    /\ exitStatus' = "running"
    /\ calls' = <<>>
    /\ fsStart' = fs
    /\ prevCalls' = calls
    /\ UNCHANGED <<cmd, file, fs>>

Next ==
    \/ MainHelp
    \/ MainMissingInput
    \/ MainMissingFormat
    \/ MainInvalidFormat
    \/ MainExtract
    \/ ParseOk
    \/ CatchNxsException
    \/ CatchException
    \/ CatchAll
    \/ ThrowNoTrees
    \/ EnterLoop
    \/ WriteTree
    \/ MainReturn
    \/ RunAgain

Spec == Init /\ [][Next]_vars

----------------------------------------------------------------------------
\* Vocabulary of the properties.

Range(s) == { s[k] : k \in 1..Len(s) }

Advertised == Range(FormatNames)

NonZero == {"1", "SIGABRT"}

\* --help is absent and --input and --format are given, so main reaches the
\* validation of the format.
ReachesValidation == ~cmd.help /\ cmd.input # <<>> /\ cmd.format # <<>>

\* The command line passes every check of main.
ValidCommand == ReachesValidation /\ cmd.format[1] \in Advertised

RequestedPrefix == IF cmd.prefix = <<>> THEN <<"t", "r", "e", "e">> ELSE cmd.prefix[1]

\* Every open of the output stream in cs succeeded.
AllOpened(cs) == \A k \in 1..Len(cs) : cs[k].opened

\* The file name the tree at 1-based place k of the parsed trees resolves to.
ResolvedFile(k) ==
    IF parser[k].name # <<>>
    THEN parser[k].name \o <<".", "t", "r", "e">>
    ELSE RequestedPrefix \o <<"_">> \o lexical_cast(k - 1) \o <<".", "t", "r", "e">>

----------------------------------------------------------------------------
\* C1: the tree at 0-based position i goes to "<name>.tre" when it has a
\* name and to "<prefix>_<i>.tre" when it has none, i being its position
\* among all the trees; a write whose open succeeded leaves that file.
C1_OutputNames ==
    \A k \in 1..Len(calls) :
        /\ calls[k].filename = ResolvedFile(k)
        /\ calls[k].opened => calls[k].filename \in DOMAIN fs

\* A named tree at position 0 and an unnamed one at position 1, written to
\* "tree_1.tre": the position and the rank among the unnamed trees differ.
C1_Witness ==
    /\ Len(calls) = 2
    /\ parser[1].name = <<"A">>
    /\ parser[2].name = <<>>
    /\ calls[2].opened
    /\ calls[2].filename = <<"t", "r", "e", "e", "_", "1", ".", "t", "r", "e">>
    /\ calls[2].filename \in DOMAIN fs

\* C2: a write that fails stops the run at that tree with a non-zero exit:
\* no later tree is handed to the writer and the process never exits 0.
C2_StopOnWriteFailure ==
    \A k \in 1..Len(calls) :
        ~calls[k].opened => (Len(calls) = k /\ exitStatus # "0")

\* C3: once the unknown parse failure is reported the run aborts with a
\* non-zero exit: control never reaches the empty-result check or the loop,
\* nothing is written and the exit status is never 0.
C3_UnknownFailureAborts ==
    MsgUnknown \in Range(stderr) =>
        /\ pc = "exited"
        /\ exitStatus \in NonZero
        /\ calls = <<>>
        /\ fs = fsStart

\* C4: a --format value that is not exactly an advertised identifier makes
\* the run exit with status 1 after every advertised identifier was listed;
\* the input is never opened and no output file is written, before or after.
C4_InvalidFormatFailsBeforeIO ==
    (ReachesValidation /\ cmd.format[1] \notin Advertised) =>
        /\ ~inputOpened
        /\ calls = <<>>
        /\ fs = fsStart
        /\ pc \in {"main", "exited"}
        /\ pc = "exited" =>
             /\ exitStatus = "1"
             /\ \A f \in Advertised : (<<"\t">> \o f) \in Range(stderr)

\* The run has failed on an identifier that differs from an advertised one
\* in letter case only.
C4_Witness ==
    /\ pc = "exited"
    /\ ReachesValidation
    /\ cmd.format[1] = <<"N", "e", "x", "u", "s">>
    /\ exitStatus = "1"
    /\ Len(stderr) = 2 + Len(FormatNames)

\* C5: a parse that succeeds with zero trees ends the process with a
\* non-zero status, and no output file is written.
C5_NoTreesFails ==
    (ValidCommand /\ file.outcome = "ok" /\ file.trees = <<>>) =>
        /\ calls = <<>>
        /\ fs = fsStart
        /\ pc # "loop"
        /\ pc = "exited" => exitStatus \in NonZero

C5_Witness ==
    /\ ValidCommand
    /\ file.outcome = "ok"
    /\ file.trees = <<>>
    /\ inputOpened
    /\ pc = "exited"
    /\ exitStatus = "SIGABRT"

\* C6: when the parser rejects the input (its own error, or a generic one)
\* the process exits with a non-zero status and no output file is written,
\* whatever the parser had decoded before it failed.
C6_ParseFailureWritesNothing ==
    (ValidCommand /\ file.outcome \in {"NxsException", "exception"}) =>
        /\ calls = <<>>
        /\ fs = fsStart
        /\ pc \notin {"get_trees", "loop"}
        /\ pc = "exited" => exitStatus \in NonZero

\* The generic failure came after the parser had decoded a tree.
C6_Witness ==
    /\ ValidCommand
    /\ file.outcome = "exception"
    /\ Len(parser) >= 1
    /\ MsgException \in Range(stderr)
    /\ pc = "exited"
    /\ exitStatus = "1"

\* C7: right after a tree with Newick string S is written, its file holds
\* exactly S followed by one ";" (whatever the file held before, and also
\* when S is empty or ends in ";").
C7_ExactContents ==
    calls # <<>> =>
        LET n == Len(calls)
        IN  calls[n].opened =>
              /\ calls[n].filename \in DOMAIN fs
              /\ fs[calls[n].filename] = parser[n].newick \o <<";">>

\* A file that held other text now holds "x;;": S ends in ";" already.
C7_Witness ==
    /\ calls # <<>>
    /\ calls[Len(calls)].opened
    /\ parser[Len(calls)].newick = <<"x", ";">>
    /\ calls[Len(calls)].filename \in DOMAIN fsStart
    /\ fsStart[calls[Len(calls)].filename] = <<"o", "l", "d">>
    /\ fs[calls[Len(calls)].filename] = <<"x", ";", ";">>

\* C8: when several trees of a run resolve to one file name and the writes
\* succeed, nothing is renamed: after the run the files are those that were
\* there plus the resolved names, and the shared file holds the Newick string
\* plus ";" of the last of the trees that share it.
C8_LastWriteWins ==
    (pc = "exited" /\ calls # <<>> /\ AllOpened(calls)) =>
        /\ DOMAIN fs = DOMAIN fsStart \cup { ResolvedFile(k) : k \in 1..Len(calls) }
        /\ \A j \in 1..Len(calls) :
             LET sharing == { k \in 1..Len(calls) : ResolvedFile(k) = ResolvedFile(j) }
                 last    == CHOOSE k \in sharing : \A m \in sharing : m <= k
             IN  Cardinality(sharing) >= 2 =>
                   fs[ResolvedFile(j)] = parser[last].newick \o <<";">>

\* A tree named "t_1" at position 0 and an unnamed tree at position 1, with
\* prefix "t" and different Newick strings: both resolve to "t_1.tre".
C8_Witness ==
    /\ pc = "exited"
    /\ Len(calls) = 2
    /\ AllOpened(calls)
    /\ parser[1].name = <<"t", "_", "1">>
    /\ parser[2].name = <<>>
    /\ calls[1].filename = calls[2].filename
    /\ parser[1].newick # parser[2].newick
    /\ fs[calls[2].filename] = parser[2].newick \o <<";">>

\* C9: a second run of the same command on the same input, with the writes
\* of both runs succeeding, leaves the directory exactly as the first run
\* left it: the same files with the same contents.
C9_SecondRunChangesNothing ==
    (run = "second" /\ pc = "exited" /\ AllOpened(calls) /\ AllOpened(prevCalls)) =>
        /\ fs = fsStart
        /\ calls = prevCalls

\* The second run has rewritten two files, one of which was there before the
\* first run with other text.
C9_Witness ==
    /\ run = "second"
    /\ pc = "exited"
    /\ exitStatus = "0"
    /\ Len(calls) = 2
    /\ AllOpened(calls)
    /\ AllOpened(prevCalls)
    /\ calls[1].filename # calls[2].filename
    /\ calls[1].filename = <<"A", ".", "t", "r", "e">>
    /\ fs[calls[1].filename] # <<"o", "l", "d">>

\* C10: the writer is called on the trees in position order 0, 1, ..., each
\* at most once and only after parsing and the empty-result check; a run whose
\* parse returns N >= 1 trees and whose writes all succeed ends with exactly N
\* calls, one per tree of the file in file order, and exit status 0.
C10_OneWritePerTreeInOrder ==
    /\ \A k \in 1..Len(calls) : calls[k].index = k - 1
    /\ Len(calls) <= Len(parser)
    /\ calls # <<>> => (inputOpened /\ pc \in {"loop", "exited"})
    /\ (file.outcome = "ok" /\ Len(file.trees) >= 1 /\ pc = "exited"
            /\ ValidCommand /\ AllOpened(calls)) =>
         /\ exitStatus = "0"
         /\ Len(calls) = Len(file.trees)
         /\ \A k \in 1..Len(calls) : calls[k].contents = file.trees[k].newick

C10_Witness ==
    /\ file.outcome = "ok"
    /\ Len(file.trees) = 2
    /\ file.trees[1].newick # file.trees[2].newick
    /\ pc = "exited"
    /\ exitStatus = "0"
    /\ Len(calls) = 2
    /\ AllOpened(calls)

====
